---- MODULE Spec2Model ----
(***************************************************************************)
(* Model of the http-kit body abstraction (src/src/body/mod.rs) and of the *)
(* Server-Sent-Events codec (src/src/sse.rs).                              *)
(*                                                                         *)
(* Bytes are modelled as sequences of one-character strings; every byte   *)
(* used in the SSE part is ASCII, so String::from_utf8_lossy is the        *)
(* identity on them.  Rust Strings are sequences of the same characters.   *)
(***************************************************************************)
EXTENDS Integers, Sequences, FiniteSets, TLC

VARIABLES
    dw,        \* SseStream over the whole input as one chunk
    ds,        \* SseStream over the same input split into chunks
    evt,       \* the Event that was encoded (round-trip specification)
    bodies,    \* Body values held in the program's slots
    ret,       \* the Body returned by the last operation if it was take() / replace()
    lastOp,    \* the last Body operation, its operands and its result
    origin,    \* payload a slot was built from by a From/from_bytes call
    inp,       \* the SSE input, as blocks of lines and an unterminated tail
    rd         \* the IntoAsyncRead returned by Body::into_reader, and what was read

vars == <<dw, ds, evt, bodies, ret, lastOp, origin, inp, rd>>

(***************************************************************************)
(* Bounds                                                                  *)
(***************************************************************************)
MaxLines == 3
MaxCuts == 2
MaxBlocks == 3

(***************************************************************************)
(* Characters and helpers                                                  *)
(***************************************************************************)
NL == "\n"
CR == "\r"
\* Option<T>: None is <<>>, Some(v) is <<v>>
None == <<>>
Some(v) == <<v>>

RECURSIVE Join(_, _)
Join(ls, sep) ==
    IF ls = <<>> THEN <<>>
    ELSE IF Len(ls) = 1 THEN Head(ls)
    ELSE Head(ls) \o sep \o Join(Tail(ls), sep)

\* str::strip_prefix
HasPrefix(s, p) == Len(s) >= Len(p) /\ SubSeq(s, 1, Len(p)) = p
StripPrefix(s, p) == SubSeq(s, Len(p) + 1, Len(s))

\* str::trim_end_matches('\n')
RECURSIVE TrimEndNL(_)
TrimEndNL(s) ==
    IF s # <<>> /\ s[Len(s)] = NL THEN TrimEndNL(SubSeq(s, 1, Len(s) - 1)) ELSE s

\* str::lines: split at '\n', drop one trailing '\r' of each line, and no
\* final empty line after a trailing '\n'.
RECURSIVE SplitNL(_, _)
SplitNL(s, cur) ==
    LET nls == {k \in 1..Len(s) : s[k] = NL}
        j   == CHOOSE k \in nls : \A m \in nls : k <= m
    IN IF nls = {} THEN (IF cur \o s = <<>> THEN <<>> ELSE <<cur \o s>>)
       ELSE <<cur \o SubSeq(s, 1, j - 1)>> \o SplitNL(SubSeq(s, j + 1, Len(s)), <<>>)
StripCR(l) == IF l # <<>> /\ l[Len(l)] = CR THEN SubSeq(l, 1, Len(l) - 1) ELSE l
Lines(s) == LET ls == SplitNL(s, <<>>) IN [k \in 1..Len(ls) |-> StripCR(ls[k])]

Digits == <<"0", "1", "2", "3", "4", "5", "6", "7", "8", "9">>
IsDigit(c) == \E k \in 1..10 : Digits[k] = c
DigitVal(c) == CHOOSE k \in 0..9 : Digits[k + 1] = c

\* <u64 as FromStr>::from_str: optional '+', then one or more ASCII digits,
\* value below 2^64.
RECURSIVE DigitsVal(_, _)
DigitsVal(s, acc) == IF s = <<>> THEN acc ELSE DigitsVal(Tail(s), acc * 10 + DigitVal(Head(s)))
RECURSIVE DropZeros(_)
DropZeros(s) == IF s # <<>> /\ Head(s) = "0" THEN DropZeros(Tail(s)) ELSE s
\* decimal digits of u64::MAX = 18446744073709551615
U64MaxDigits == <<"1","8","4","4","6","7","4","4","0","7","3","7","0","9","5","5","1","6","1","5">>
RECURSIVE LexLeq(_, _)
LexLeq(a, b) ==
    IF a = <<>> THEN TRUE
    ELSE IF DigitVal(Head(a)) # DigitVal(Head(b)) THEN DigitVal(Head(a)) < DigitVal(Head(b))
    ELSE LexLeq(Tail(a), Tail(b))
FitsU64(t) ==
    LET m == DropZeros(t)
    IN Len(m) < Len(U64MaxDigits) \/ (Len(m) = Len(U64MaxDigits) /\ LexLeq(m, U64MaxDigits))
ParseU64(s) ==
    LET t == IF s # <<>> /\ Head(s) = "+" THEN Tail(s) ELSE s
    IN IF t # <<>> /\ (\A k \in 1..Len(t) : IsDigit(t[k])) /\ FitsU64(t)
       THEN Some(DigitsVal(t, 0)) ELSE None

\* u64::to_string
RECURSIVE NatToStr(_)
NatToStr(n) == IF n < 10 THEN <<Digits[n + 1]>> ELSE NatToStr(n \div 10) \o <<Digits[(n % 10) + 1]>>

(***************************************************************************)
(* SSE: field prefixes                                                     *)
(***************************************************************************)
PData    == <<"d", "a", "t", "a", ":">>
PDataSp  == PData \o <<" ">>
PEvent   == <<"e", "v", "e", "n", "t", ":">>
PEventSp == PEvent \o <<" ">>
PId      == <<"i", "d", ":">>
PIdSp    == PId \o <<" ">>
PRetry   == <<"r", "e", "t", "r", "y", ":">>
PRetrySp == PRetry \o <<" ">>

\* struct PartialEvent (Default)
EmptyPartial == [id |-> None, event |-> None, data |-> <<>>, retry |-> None]

\* (mutant) the event is built without its retry
MkEventNoRetry(p) == [id |-> p.id, event |-> p.event, data |-> Join(p.data, <<NL>>), retry |-> None]
\* Event { id, event, data: data.join("\n"), retry } built from a PartialEvent
MkEvent(p) == [id |-> p.id, event |-> p.event, data |-> Join(p.data, <<NL>>), retry |-> p.retry]

\* (mutant) an unparsable retry value clears the previous one
SetRetryClears(p, s) == [p EXCEPT !.retry = ParseU64(s)]
SetRetry(p, s) == IF ParseU64(s) = None THEN p ELSE [p EXCEPT !.retry = ParseU64(s)]

\* (mutant) every space after "data:" is removed
RECURSIVE TrimLeadSp(_)
TrimLeadSp(r) == IF r # <<>> /\ Head(r) = " " THEN TrimLeadSp(Tail(r)) ELSE r
ApplyLineTrimAll(line, p) ==
    IF HasPrefix(line, PData) THEN [p EXCEPT !.data = Append(@, TrimLeadSp(StripPrefix(line, PData)))]
    ELSE IF HasPrefix(line, PEventSp) THEN [p EXCEPT !.event = Some(StripPrefix(line, PEventSp))]
    ELSE IF HasPrefix(line, PEvent) THEN [p EXCEPT !.event = Some(StripPrefix(line, PEvent))]
    ELSE IF HasPrefix(line, PIdSp) THEN [p EXCEPT !.id = Some(StripPrefix(line, PIdSp))]
    ELSE IF HasPrefix(line, PId) THEN [p EXCEPT !.id = Some(StripPrefix(line, PId))]
    ELSE IF HasPrefix(line, PRetrySp) THEN SetRetry(p, StripPrefix(line, PRetrySp))
    ELSE IF HasPrefix(line, PRetry) THEN SetRetry(p, StripPrefix(line, PRetry))
    ELSE p
\* (mutant) a repeated id or event line does not overwrite the first
ApplyLineFirstWins(line, p) ==
    IF HasPrefix(line, PDataSp) THEN [p EXCEPT !.data = Append(@, StripPrefix(line, PDataSp))]
    ELSE IF HasPrefix(line, PData) THEN [p EXCEPT !.data = Append(@, StripPrefix(line, PData))]
    ELSE IF HasPrefix(line, PEvent) /\ p.event # None THEN p
    ELSE IF HasPrefix(line, PEventSp) THEN [p EXCEPT !.event = Some(StripPrefix(line, PEventSp))]
    ELSE IF HasPrefix(line, PEvent) THEN [p EXCEPT !.event = Some(StripPrefix(line, PEvent))]
    ELSE IF HasPrefix(line, PId) /\ p.id # None THEN p
    ELSE IF HasPrefix(line, PIdSp) THEN [p EXCEPT !.id = Some(StripPrefix(line, PIdSp))]
    ELSE IF HasPrefix(line, PId) THEN [p EXCEPT !.id = Some(StripPrefix(line, PId))]
    ELSE IF HasPrefix(line, PRetrySp) THEN SetRetry(p, StripPrefix(line, PRetrySp))
    ELSE IF HasPrefix(line, PRetry) THEN SetRetry(p, StripPrefix(line, PRetry))
    ELSE p
\* the if/else-if chain classifying one line (comments and unknown lines
\* fall through without effect)
ApplyLine(line, p) ==
    IF HasPrefix(line, PDataSp) THEN [p EXCEPT !.data = Append(@, StripPrefix(line, PDataSp))]
    ELSE IF HasPrefix(line, PData) THEN [p EXCEPT !.data = Append(@, StripPrefix(line, PData))]
    ELSE IF HasPrefix(line, PEventSp) THEN [p EXCEPT !.event = Some(StripPrefix(line, PEventSp))]
    ELSE IF HasPrefix(line, PEvent) THEN [p EXCEPT !.event = Some(StripPrefix(line, PEvent))]
    ELSE IF HasPrefix(line, PIdSp) THEN [p EXCEPT !.id = Some(StripPrefix(line, PIdSp))]
    ELSE IF HasPrefix(line, PId) THEN [p EXCEPT !.id = Some(StripPrefix(line, PId))]
    ELSE IF HasPrefix(line, PRetrySp) THEN SetRetry(p, StripPrefix(line, PRetrySp))
    ELSE IF HasPrefix(line, PRetry) THEN SetRetry(p, StripPrefix(line, PRetry))
    ELSE p

\* for line in event_str.lines() { if line.is_empty() { continue; } ... }
RECURSIVE ApplyLines(_, _)
ApplyLines(ls, p) ==
    IF ls = <<>> THEN p
    ELSE ApplyLines(Tail(ls), IF Head(ls) = <<>> THEN p ELSE ApplyLine(Head(ls), p))

NoEvent == [none |-> TRUE]

\* the byte 0xFF, which starts no UTF-8 sequence, and U+FFFD
BadByte == "<FF>"
Replacement == "<U+FFFD>"
\* (mutant) the bytes are taken as they are
FromUtf8LossyIdentity(b) == b
\* String::from_utf8_lossy on bytes whose only non-ASCII byte is 0xFF: each
\* 0xFF is an invalid sequence of its own and becomes one U+FFFD
FromUtf8Lossy(b) == [k \in 1..Len(b) |-> IF b[k] = BadByte THEN Replacement ELSE b[k]]

\* (mutant) the id of an emitted event stays in the PartialEvent
RECURSIVE ParseLoopKeepId(_, _, _)
ParseLoopKeepId(buf, p, i) ==
    \* the iterations at which buffer[i] is not '\n' change nothing: go to
    \* the first i' >= i with buffer[i'] = '\n'
    LET nls == {k \in i..Len(buf) - 1 : buf[k + 1] = NL}
        j   == IF nls = {} THEN Len(buf) ELSE CHOOSE k \in nls : \A m \in nls : k <= m
    IN
    IF j >= Len(buf) THEN [buf |-> buf, p |-> p, ev |-> NoEvent]
    ELSE
      LET dbl  == j + 1 < Len(buf) /\ buf[j + 1] = NL /\ buf[j + 2] = NL
          buf1 == IF dbl THEN SubSeq(buf, j + 3, Len(buf)) ELSE buf
          p1   == IF dbl THEN ApplyLines(Lines(FromUtf8Lossy(SubSeq(buf, 1, j + 2))), p) ELSE p
      IN IF dbl /\ p1.data # <<>>
         THEN [buf |-> buf1, p |-> [EmptyPartial EXCEPT !.id = p1.id], ev |-> MkEvent(p1)]
         ELSE IF j < Len(buf1) /\ buf1[j + 1] = NL
         THEN ParseLoopKeepId(SubSeq(buf1, j + 2, Len(buf1)),
                        ApplyLine(TrimEndNL(FromUtf8Lossy(SubSeq(buf1, 1, j + 1))), p1), 0)
         ELSE ParseLoopKeepId(buf1, p1, j + 1)

\* (mutant) a line taken on the single-newline path is not decoded lossily
RECURSIVE ParseLoopRawLine(_, _, _)
ParseLoopRawLine(buf, p, i) ==
    \* the iterations at which buffer[i] is not '\n' change nothing: go to
    \* the first i' >= i with buffer[i'] = '\n'
    LET nls == {k \in i..Len(buf) - 1 : buf[k + 1] = NL}
        j   == IF nls = {} THEN Len(buf) ELSE CHOOSE k \in nls : \A m \in nls : k <= m
    IN
    IF j >= Len(buf) THEN [buf |-> buf, p |-> p, ev |-> NoEvent]
    ELSE
      LET dbl  == j + 1 < Len(buf) /\ buf[j + 1] = NL /\ buf[j + 2] = NL
          buf1 == IF dbl THEN SubSeq(buf, j + 3, Len(buf)) ELSE buf
          p1   == IF dbl THEN ApplyLines(Lines(FromUtf8Lossy(SubSeq(buf, 1, j + 2))), p) ELSE p
      IN IF dbl /\ p1.data # <<>>
         THEN [buf |-> buf1, p |-> EmptyPartial, ev |-> MkEvent(p1)]
         ELSE IF j < Len(buf1) /\ buf1[j + 1] = NL
         THEN ParseLoopRawLine(SubSeq(buf1, j + 2, Len(buf1)),
                        ApplyLine(TrimEndNL(SubSeq(buf1, 1, j + 1)), p1), 0)
         ELSE ParseLoopRawLine(buf1, p1, j + 1)


\* parse_event_from_buffer: the while loop over i (0-based as in the code)
RECURSIVE ParseLoop(_, _, _)
ParseLoop(buf, p, i) ==
    \* the iterations at which buffer[i] is not '\n' change nothing: go to
    \* the first i' >= i with buffer[i'] = '\n'
    LET nls == {k \in i..Len(buf) - 1 : buf[k + 1] = NL}
        j   == IF nls = {} THEN Len(buf) ELSE CHOOSE k \in nls : \A m \in nls : k <= m
    IN
    IF j >= Len(buf) THEN [buf |-> buf, p |-> p, ev |-> NoEvent]
    ELSE
      LET dbl  == j + 1 < Len(buf) /\ buf[j + 1] = NL /\ buf[j + 2] = NL
          buf1 == IF dbl THEN SubSeq(buf, j + 3, Len(buf)) ELSE buf
          p1   == IF dbl THEN ApplyLines(Lines(FromUtf8Lossy(SubSeq(buf, 1, j + 2))), p) ELSE p
      IN IF dbl /\ p1.data # <<>>
         THEN [buf |-> buf1, p |-> EmptyPartial, ev |-> MkEvent(p1)]
         ELSE IF j < Len(buf1) /\ buf1[j + 1] = NL
         THEN ParseLoop(SubSeq(buf1, j + 2, Len(buf1)),
                        ApplyLine(TrimEndNL(FromUtf8Lossy(SubSeq(buf1, 1, j + 1))), p1), 0)
         ELSE ParseLoop(buf1, p1, j + 1)

parse_event_from_buffer(buf, p) == ParseLoop(buf, p, 0)

(***************************************************************************)
(* SseStream.  The body is the sequence of chunks Body::poll_next still    *)
(* yields: a Once body yields its bytes once if non-empty, a stream body   *)
(* yields its chunks in order, then both yield None.                       *)
(***************************************************************************)
OnceChunks(b) == IF b = <<>> THEN <<>> ELSE <<b>>

\* Display of BodyFrozen (impl_error!, body/mod.rs)
\* the grave accent U+0060, which a TLA+ string cannot hold
Backquote == "<U+0060>"
BodyFrozenMsg == <<"Body was frozen,it may have been consumed by ", Backquote, "take()", Backquote>>
\* an item of the body stream: Ok(bytes) or Err(error) with its message
OkChunk(b) == [ok |-> TRUE, bytes |-> b, msg |-> <<>>]
ErrChunk(m) == [ok |-> FALSE, bytes |-> <<>>, msg |-> m]

\* SseStream::new over a body yielding the given items
NewSseItems(items) ==
    [body |-> items, buffer |-> <<>>, partial |-> EmptyPartial,
     out |-> <<>>, done |-> FALSE,
     \* history: events yielded before the first None, whether the
     \* end-of-body flush has fired, and for each Err(BodyError(msg))
     \* yielded its message and the number of events yielded before it
     firstOut |-> <<>>, flushed |-> FALSE, errs |-> <<>>,
     \* whether the body was polled while a complete line was buffered
     lineLeft |-> FALSE,
     \* BodyInner::Freeze
     frozen |-> FALSE]

\* SseStream::new over a body yielding the given chunks
NewSse(chunks) == NewSseItems([k \in 1..Len(chunks) |-> OkChunk(chunks[k])])

\* SseStream::poll_next: the loop alternating parse and body polls
\* (mutant) a body error is reported with a fixed message
RECURSIVE SsePollGenericMsg(_)
SsePollGenericMsg(d) ==
    LET r == parse_event_from_buffer(d.buffer, d.partial) IN
    IF r.ev # NoEvent
    THEN [d EXCEPT !.buffer = r.buf, !.partial = r.p, !.out = Append(@, r.ev)]
    ELSE
      \* no event: this.body.as_mut().poll_next(cx)
      LET d1 == [d EXCEPT !.buffer = r.buf, !.partial = r.p,
                          !.lineLeft = @ \/ \E k \in 1..Len(r.buf) : r.buf[k] = NL]
      IN IF d.frozen
         THEN [d1 EXCEPT !.errs = Append(@, [msg |-> BodyFrozenMsg, pos |-> Len(d.out)])]
         ELSE IF d.body # <<>> /\ Head(d.body).ok
         THEN SsePollGenericMsg([d1 EXCEPT !.buffer = @ \o Head(d.body).bytes, !.body = Tail(d.body)])
         ELSE IF d.body # <<>>
         THEN [d1 EXCEPT !.body = Tail(d.body),
                         !.errs = Append(@, [msg |-> <<"b", "o", "d", "y">>, pos |-> Len(d.out)])]
         ELSE IF r.p.data # <<>>
         THEN [d1 EXCEPT !.partial = EmptyPartial, !.out = Append(@, MkEvent(r.p)), !.flushed = TRUE]
         ELSE [d1 EXCEPT !.done = TRUE, !.firstOut = IF d.done THEN d.firstOut ELSE d.out]

\* (mutant) a frozen body ends the stream
RECURSIVE SsePollFrozenEnds(_)
SsePollFrozenEnds(d) ==
    LET r == parse_event_from_buffer(d.buffer, d.partial) IN
    IF r.ev # NoEvent
    THEN [d EXCEPT !.buffer = r.buf, !.partial = r.p, !.out = Append(@, r.ev)]
    ELSE
      \* no event: this.body.as_mut().poll_next(cx)
      LET d1 == [d EXCEPT !.buffer = r.buf, !.partial = r.p,
                          !.lineLeft = @ \/ \E k \in 1..Len(r.buf) : r.buf[k] = NL]
      IN IF d.frozen
         THEN [d1 EXCEPT !.done = TRUE, !.firstOut = IF d.done THEN d.firstOut ELSE d.out]
         ELSE IF d.body # <<>> /\ Head(d.body).ok
         THEN SsePollFrozenEnds([d1 EXCEPT !.buffer = @ \o Head(d.body).bytes, !.body = Tail(d.body)])
         ELSE IF d.body # <<>>
         THEN [d1 EXCEPT !.body = Tail(d.body),
                         !.errs = Append(@, [msg |-> Head(d.body).msg, pos |-> Len(d.out)])]
         ELSE IF r.p.data # <<>>
         THEN [d1 EXCEPT !.partial = EmptyPartial, !.out = Append(@, MkEvent(r.p)), !.flushed = TRUE]
         ELSE [d1 EXCEPT !.done = TRUE, !.firstOut = IF d.done THEN d.firstOut ELSE d.out]

RECURSIVE SsePoll(_)
SsePoll(d) ==
    LET r == parse_event_from_buffer(d.buffer, d.partial) IN
    IF r.ev # NoEvent
    THEN [d EXCEPT !.buffer = r.buf, !.partial = r.p, !.out = Append(@, r.ev)]
    ELSE
      \* no event: this.body.as_mut().poll_next(cx)
      LET d1 == [d EXCEPT !.buffer = r.buf, !.partial = r.p,
                          !.lineLeft = @ \/ \E k \in 1..Len(r.buf) : r.buf[k] = NL]
      IN IF d.frozen
         THEN [d1 EXCEPT !.errs = Append(@, [msg |-> BodyFrozenMsg, pos |-> Len(d.out)])]
         ELSE IF d.body # <<>> /\ Head(d.body).ok
         THEN SsePoll([d1 EXCEPT !.buffer = @ \o Head(d.body).bytes, !.body = Tail(d.body)])
         ELSE IF d.body # <<>>
         THEN [d1 EXCEPT !.body = Tail(d.body),
                         !.errs = Append(@, [msg |-> Head(d.body).msg, pos |-> Len(d.out)])]
         ELSE IF r.p.data # <<>>
         THEN [d1 EXCEPT !.partial = EmptyPartial, !.out = Append(@, MkEvent(r.p)), !.flushed = TRUE]
         ELSE [d1 EXCEPT !.done = TRUE, !.firstOut = IF d.done THEN d.firstOut ELSE d.out]

(***************************************************************************)
(* Inputs of the SSE specifications                                        *)
(***************************************************************************)
LDataA == PDataSp \o <<"a">>
LIdOne == PIdSp \o <<"1">>
LBlank == <<>>
LineTemplates == {LDataA, LIdOne, LBlank}

RECURSIVE Concat(_)
Concat(ls) == IF ls = <<>> THEN <<>> ELSE Head(ls) \o <<NL>> \o Concat(Tail(ls))

\* byte inputs: up to MaxLines template lines, each ending in '\n'
Inputs == { Concat(ls) : ls \in UNION { [1..k -> LineTemplates] : k \in 1..MaxLines } }

\* the chunks of b obtained by cutting it before each position of cuts
RECURSIVE CutAt(_, _, _)
CutAt(b, cs, from) ==
    IF cs = {} THEN <<SubSeq(b, from, Len(b))>>
    ELSE LET c == CHOOSE c \in cs : \A d \in cs : c <= d
         IN <<SubSeq(b, from, c - 1)>> \o CutAt(b, cs \ {c}, c)
Partitions(b) == { CutAt(b, cs, 1) : cs \in { cs \in SUBSET (2..Len(b)) : Cardinality(cs) <= MaxCuts } }

NoBody == [kind |-> "None"]
NoReader == [kind |-> "None"]
NoOp == [name |-> "none", x |-> 0, y |-> 0, res |-> [tag |-> "Unit", val |-> <<>>, err |-> ""],
         src |-> None, arg |-> NoBody]

BodyUnchanged == UNCHANGED <<bodies, ret, lastOp, origin, rd>>

(***************************************************************************)
(* Chunk-boundary specification: one SseStream over Once(B), one over a   *)
(* stream body delivering a partition of B.                                *)
(***************************************************************************)
InitSse ==
    /\ \E b \in Inputs :
         /\ dw = NewSse(OnceChunks(b))
         /\ ds \in { NewSse(cs) : cs \in Partitions(b) }
    /\ evt = None /\ inp = None
    /\ bodies = <<>> /\ ret = NoBody /\ lastOp = NoOp /\ origin = <<>> /\ rd = NoReader

PollWhole == ~dw.done /\ dw' = SsePoll(dw) /\ UNCHANGED <<ds, evt, inp>> /\ BodyUnchanged
PollSplit == ~ds.done /\ ds' = SsePoll(ds) /\ UNCHANGED <<dw, evt, inp>> /\ BodyUnchanged

NextSse == PollWhole \/ PollSplit
SpecSse == InitSse /\ [][NextSse]_vars

(***************************************************************************)
(* Round-trip specification: an SseStream over Once(e.encode()).           *)
(***************************************************************************)
\* (mutant) the id line is written before the data line
EncodeIdFirst(e) ==
    (IF e.event = None THEN <<>> ELSE PEventSp \o e.event[1] \o <<NL>>)
    \o (IF e.id = None THEN <<>> ELSE PIdSp \o e.id[1] \o <<NL>>)
    \o PDataSp \o e.data \o <<NL>>
    \o (IF e.retry = None THEN <<>> ELSE PRetrySp \o NatToStr(e.retry[1]) \o <<NL>>)
    \o <<NL>>
\* Event::encode
Encode(e) ==
    (IF e.event = None THEN <<>> ELSE PEventSp \o e.event[1] \o <<NL>>)
    \o PDataSp \o e.data \o <<NL>>
    \o (IF e.id = None THEN <<>> ELSE PIdSp \o e.id[1] \o <<NL>>)
    \o (IF e.retry = None THEN <<>> ELSE PRetrySp \o NatToStr(e.retry[1]) \o <<NL>>)
    \o <<NL>>

RtData == { <<"a">>, <<" ", "a">>, <<"a", NL, "b">> }
RtStr == { None, Some(<<>>), Some(<<"1">>) }
RtRetry == { None, Some(0), Some(12) }
RtEvents == [id : RtStr, event : RtStr, data : RtData, retry : RtRetry]

InitRt ==
    /\ evt \in RtEvents /\ inp = None
    /\ dw = NewSse(OnceChunks(Encode(evt)))
    /\ ds = NewSse(<<>>)
    /\ bodies = <<>> /\ ret = NoBody /\ lastOp = NoOp /\ origin = <<>> /\ rd = NoReader

NextRt == PollWhole
SpecRt == InitRt /\ [][NextRt]_vars

\* C1: for the same bytes delivered as one chunk or as any partition into
\* chunks, the streams, polled to exhaustion, yield the same events.
ChunkInvariance == dw.done /\ ds.done => dw.out = ds.out

\* C2: decoding e.encode() yields exactly e and then None.
RoundTrip == dw.done => dw.out = <<evt>>

(***************************************************************************)
(* Body (src/src/body/mod.rs).  Bytes are integers 0..255.                 *)
(***************************************************************************)
MaxPayload == 2
ByteAlphabet == {97, 195, 255}   \* 'a', a UTF-8 two-byte lead byte, 0xFF
Payloads == UNION { [1..k -> ByteAlphabet] : k \in 0..MaxPayload }
Slots == {1, 2}

\* std::str::from_utf8 acceptance (RFC 3629 well-formed sequences)
Cont(b) == b \in 128..191
RECURSIVE Utf8Valid(_)
Utf8Valid(s) ==
    IF s = <<>> THEN TRUE
    ELSE LET b == s[1] IN
      IF b < 128 THEN Utf8Valid(Tail(s))
      ELSE IF b \in 194..223
        THEN Len(s) >= 2 /\ Cont(s[2]) /\ Utf8Valid(SubSeq(s, 3, Len(s)))
      ELSE IF b = 224
        THEN Len(s) >= 3 /\ s[2] \in 160..191 /\ Cont(s[3]) /\ Utf8Valid(SubSeq(s, 4, Len(s)))
      ELSE IF b \in 225..236 \/ b \in 238..239
        THEN Len(s) >= 3 /\ Cont(s[2]) /\ Cont(s[3]) /\ Utf8Valid(SubSeq(s, 4, Len(s)))
      ELSE IF b = 237
        THEN Len(s) >= 3 /\ s[2] \in 128..159 /\ Cont(s[3]) /\ Utf8Valid(SubSeq(s, 4, Len(s)))
      ELSE IF b = 240
        THEN Len(s) >= 4 /\ s[2] \in 144..191 /\ Cont(s[3]) /\ Cont(s[4]) /\ Utf8Valid(SubSeq(s, 5, Len(s)))
      ELSE IF b \in 241..243
        THEN Len(s) >= 4 /\ Cont(s[2]) /\ Cont(s[3]) /\ Cont(s[4]) /\ Utf8Valid(SubSeq(s, 5, Len(s)))
      ELSE IF b = 244
        THEN Len(s) >= 4 /\ s[2] \in 128..143 /\ Cont(s[3]) /\ Cont(s[4]) /\ Utf8Valid(SubSeq(s, 5, Len(s)))
      ELSE FALSE

\* struct Body { mime, inner: BodyInner }.  BodyInner::Once(bytes);
\* Reader { reader, length } with items = what successive fill_buf calls
\* return (an empty fill_buf is the end of the items); HttpBody with items =
\* the frames' data or errors; Freeze.  "Moved" marks a slot whose Body was
\* consumed by value (into_bytes, into_string).
Item(ok, b) == [ok |-> ok, bytes |-> b]
MkBody(kind, mime, bytes, items, hint) ==
    [kind |-> kind, mime |-> mime, bytes |-> bytes, items |-> items, hint |-> hint]
OctetStream == "application/octet-stream"
NoMime == "none"

\* Body::empty
BodyEmpty == MkBody("Once", NoMime, <<>>, <<>>, None)
\* Body::from_bytes (and every From<bytes-like> conversion, which calls it)
FromBytes(p) == MkBody("Once", OctetStream, p, <<>>, None)
\* Body::frozen
Frozen == MkBody("Freeze", NoMime, <<>>, <<>>, None)
\* Body::from_reader
FromReader(items, hint) == MkBody("Reader", NoMime, <<>>, items, hint)
\* Body::from_stream / Body::new
FromStream(items) == MkBody("HttpBody", NoMime, <<>>, items, None)
Moved == MkBody("Moved", NoMime, <<>>, <<>>, None)

\* the mime constants the constructors use (mime::TEXT_PLAIN_UTF_8,
\* APPLICATION_JSON, APPLICATION_WWW_FORM_URLENCODED, TEXT_EVENT_STREAM), the
\* one mime_guess gives a ".html" file, and mime::TEXT_PLAIN
TextPlainUtf8 == "text/plain; charset=utf-8"
ApplicationJson == "application/json"
FormUrlencoded == "application/x-www-form-urlencoded"
TextEventStream == "text/event-stream"
TextHtml == "text/html"
TextPlain == "text/plain"
\* Body::from_text (the bytes of a str)
FromText(s) == MkBody("Once", TextPlainUtf8, s, <<>>, None)
\* Body::from_json: from_bytes(serde_json::to_string(&value)?) with mime JSON
FromJson(j) == [FromBytes(j) EXCEPT !.mime = ApplicationJson]
\* Body::from_form: from_bytes(serde_urlencoded::to_string(value)?)
FromForm(f) == [FromBytes(f) EXCEPT !.mime = FormUrlencoded]
\* Body::from_sse: a stream body whose frames are the encoded events
FromSse(items) == [FromStream(items) EXCEPT !.mime = TextEventStream]
\* Body::from_file: from_reader(BufReader::new(file), len) with a guessed mime
FromFile(items, n, m) == [FromReader(items, Some(n)) EXCEPT !.mime = m]
\* Event::from_data("a").encode() as bytes: "data: a\n\n"
SseFrameA == <<100, 97, 116, 97, 58, 32, 97, 10, 10>>

\* Body::is_frozen
is_frozen(b) == b.kind = "Freeze"

\* Body::len
len(b) ==
    CASE b.kind = "Once" -> Some(Len(b.bytes))
      [] b.kind = "Reader" -> b.hint
      [] OTHER -> None

\* Body::is_empty
is_empty(b) == IF len(b) = None THEN None ELSE Some(len(b)[1] = 0)

ItemA == Item(TRUE, <<97>>)
ItemErr == Item(FALSE, <<>>)
ReaderItems == { <<ItemA, Item(TRUE, <<255>>)>>, <<ItemA, ItemErr>> }
StreamItems == { <<>>, <<Item(TRUE, <<195>>), Item(TRUE, <<169>>), ItemA>>, <<ItemA, ItemErr>>,
                 <<ItemA, ItemA, ItemErr, ItemA>> }
Hints == { None, Some(1) }

\* bodies the program can construct, with the payload of from_bytes ones
Constructed ==
    { [body |-> FromBytes(p), src |-> Some(p)] : p \in Payloads }
    \cup { [body |-> BodyEmpty, src |-> None], [body |-> Frozen, src |-> None] }
    \cup { [body |-> FromReader(is, h), src |-> None] : is \in ReaderItems, h \in Hints }
    \cup { [body |-> FromStream(is), src |-> None] : is \in StreamItems }
    \cup { [body |-> FromText(<<195, 169>>), src |-> None],
          [body |-> FromJson(<<34, 97, 34>>), src |-> None],
          [body |-> FromForm(<<97, 61, 97>>), src |-> None],
          [body |-> FromSse(<<Item(TRUE, SseFrameA), ItemErr>>), src |-> None],
          [body |-> FromFile(<<ItemA>>, 1, TextHtml), src |-> None] }

\* bodies installed by New and Replace
Replacements ==
    { [body |-> FromBytes(<<97>>), src |-> Some(<<97>>)], [body |-> BodyEmpty, src |-> None],
      [body |-> Frozen, src |-> None], [body |-> FromStream(<<ItemA, ItemErr>>), src |-> None] }

\* results
Ok(v) == [tag |-> "Ok", val |-> v, err |-> ""]
Err(e) == [tag |-> "Err", val |-> <<>>, err |-> e]
NoneRes == [tag |-> "None", val |-> <<>>, err |-> ""]
Unit == [tag |-> "Unit", val |-> <<>>, err |-> ""]

\* while let Some(data) = body.try_next().await? { vec.extend(data) }
RECURSIVE CollectItems(_, _)
CollectItems(is, acc) ==
    IF is = <<>> THEN Ok(acc)
    ELSE IF ~Head(is).ok THEN Err("Io")
    ELSE CollectItems(Tail(is), acc \o Head(is).bytes)

IntoBytesTruncated(b) ==
    CASE b.kind = "Once" -> Ok(IF Len(b.bytes) > 1 THEN SubSeq(b.bytes, 1, Len(b.bytes) - 1) ELSE b.bytes)
      [] b.kind = "Reader" -> CollectItems(b.items, <<>>)
      [] b.kind = "HttpBody" -> CollectItems(b.items, <<>>)
      [] b.kind = "Freeze" -> Err("BodyFrozen")

\* (mutant) an error inside the collecting loop ends it with the bytes so far
RECURSIVE CollectItemsStops(_, _)
CollectItemsStops(is, acc) ==
    IF is = <<>> \/ ~Head(is).ok THEN Ok(acc) ELSE CollectItemsStops(Tail(is), acc \o Head(is).bytes)
IntoBytesLoopStops(b) ==
    CASE b.kind = "Once" -> Ok(b.bytes)
      [] b.kind = "Reader" -> CollectItems(b.items, <<>>)
      [] b.kind = "HttpBody" ->
           IF b.items = <<>> THEN Ok(<<>>)
           ELSE IF ~b.items[1].ok THEN Err("Io")
           ELSE IF Len(b.items) = 1 THEN Ok(b.items[1].bytes)
           ELSE IF ~b.items[2].ok THEN Err("Io")
           ELSE CollectItemsStops(SubSeq(b.items, 3, Len(b.items)), b.items[1].bytes \o b.items[2].bytes)
      [] b.kind = "Freeze" -> Err("BodyFrozen")

\* Body::into_bytes
IntoBytes(b) ==
    CASE b.kind = "Once" -> Ok(b.bytes)
      [] b.kind = "Reader" -> CollectItems(b.items, <<>>)
      [] b.kind = "HttpBody" ->
           IF b.items = <<>> THEN Ok(<<>>)
           ELSE IF ~b.items[1].ok THEN Err("Io")
           ELSE IF Len(b.items) = 1 THEN Ok(b.items[1].bytes)
           ELSE IF ~b.items[2].ok THEN Err("Io")
           ELSE CollectItems(SubSeq(b.items, 3, Len(b.items)), b.items[1].bytes \o b.items[2].bytes)
      [] b.kind = "Freeze" -> Err("BodyFrozen")

IntoStringLossy(b) == IntoBytes(b)

\* Body::into_string: ByteStr::from_utf8(self.into_bytes().await?)
IntoString(b) ==
    LET r == IntoBytes(b) IN
    IF r.tag = "Err" THEN r ELSE IF Utf8Valid(r.val) THEN r ELSE Err("Utf8")

\* (mutant) an error item is yielded but not consumed
PollNextErrRepeats(b) ==
    CASE b.kind = "Once" ->
           IF b.bytes = <<>> THEN [res |-> NoneRes, body |-> b]
           ELSE [res |-> Ok(b.bytes), body |-> [b EXCEPT !.bytes = <<>>]]
      [] b.kind = "Reader" ->
           IF b.items = <<>> THEN [res |-> NoneRes, body |-> b]
           ELSE IF ~Head(b.items).ok THEN [res |-> Err("Io"), body |-> [b EXCEPT !.items = Tail(@)]]
           ELSE [res |-> Ok(Head(b.items).bytes),
                 body |-> [b EXCEPT !.items = Tail(@),
                                    !.hint = IF @ = None THEN None
                                             ELSE Some(IF @[1] > Len(Head(b.items).bytes)
                                                       THEN @[1] - Len(Head(b.items).bytes) ELSE 0)]]
      [] b.kind = "HttpBody" ->
           IF b.items = <<>> THEN [res |-> NoneRes, body |-> b]
           ELSE IF ~Head(b.items).ok THEN [res |-> Err("Io"), body |-> b]
           ELSE [res |-> Ok(Head(b.items).bytes), body |-> [b EXCEPT !.items = Tail(@)]]
      [] b.kind = "Freeze" -> [res |-> Err("BodyFrozen"), body |-> b]

PollNextNoHint(b) ==
    CASE b.kind = "Once" ->
           IF b.bytes = <<>> THEN [res |-> NoneRes, body |-> b]
           ELSE [res |-> Ok(b.bytes), body |-> [b EXCEPT !.bytes = <<>>]]
      [] b.kind = "Reader" ->
           IF b.items = <<>> THEN [res |-> NoneRes, body |-> b]
           ELSE IF ~Head(b.items).ok THEN [res |-> Err("Io"), body |-> [b EXCEPT !.items = Tail(@)]]
           ELSE [res |-> Ok(Head(b.items).bytes), body |-> [b EXCEPT !.items = Tail(@)]]
      [] b.kind = "HttpBody" ->
           IF b.items = <<>> THEN [res |-> NoneRes, body |-> b]
           ELSE [res |-> IF Head(b.items).ok THEN Ok(Head(b.items).bytes) ELSE Err("Io"),
                 body |-> [b EXCEPT !.items = Tail(@)]]
      [] b.kind = "Freeze" -> [res |-> Err("BodyFrozen"), body |-> b]

\* <Body as Stream>::poll_next: [res, body]
PollNextBody(b) ==
    CASE b.kind = "Once" ->
           IF b.bytes = <<>> THEN [res |-> NoneRes, body |-> b]
           ELSE [res |-> Ok(b.bytes), body |-> [b EXCEPT !.bytes = <<>>]]
      [] b.kind = "Reader" ->
           IF b.items = <<>> THEN [res |-> NoneRes, body |-> b]
           ELSE IF ~Head(b.items).ok THEN [res |-> Err("Io"), body |-> [b EXCEPT !.items = Tail(@)]]
           ELSE [res |-> Ok(Head(b.items).bytes),
                 body |-> [b EXCEPT !.items = Tail(@),
                                    !.hint = IF @ = None THEN None
                                             ELSE Some(IF @[1] > Len(Head(b.items).bytes)
                                                       THEN @[1] - Len(Head(b.items).bytes) ELSE 0)]]
      [] b.kind = "HttpBody" ->
           IF b.items = <<>> THEN [res |-> NoneRes, body |-> b]
           ELSE [res |-> IF Head(b.items).ok THEN Ok(Head(b.items).bytes) ELSE Err("Io"),
                 body |-> [b EXCEPT !.items = Tail(@)]]
      [] b.kind = "Freeze" -> [res |-> Err("BodyFrozen"), body |-> b]

AsBytesNoCache(b) ==
    IF is_frozen(b) THEN [res |-> Err("BodyFrozen"), body |-> b]
    ELSE [res |-> IntoBytes(b), body |-> Frozen]

\* (mutant) a failed read restores the original body
AsBytesRestores(b) ==
    IF is_frozen(b) THEN [res |-> Err("BodyFrozen"), body |-> b]
    ELSE LET r == IntoBytes(b) IN
         IF r.tag = "Err" THEN [res |-> r, body |-> b]
         ELSE [res |-> r, body |-> [Frozen EXCEPT !.kind = "Once", !.bytes = r.val]]

\* Body::as_bytes: self.inner = Once(self.take()?.into_bytes().await?)
\* (take() leaves Body::frozen(), whose mime is None, and only inner is
\* then reassigned)
AsBytes(b) ==
    IF is_frozen(b) THEN [res |-> Err("BodyFrozen"), body |-> b]
    ELSE LET r == IntoBytes(b) IN
         IF r.tag = "Err" THEN [res |-> r, body |-> Frozen]
         ELSE [res |-> r, body |-> [Frozen EXCEPT !.kind = "Once", !.bytes = r.val]]

\* (mutant) a UTF-8 failure leaves the body frozen
AsStrFreezes(b) ==
    LET r == AsBytes(b) IN
    IF r.res.tag = "Ok" /\ ~Utf8Valid(r.res.val) THEN [res |-> Err("Utf8"), body |-> Frozen] ELSE r

\* Body::as_str: core::str::from_utf8(self.as_bytes().await?)
AsStr(b) ==
    LET r == AsBytes(b) IN
    IF r.res.tag = "Ok" /\ ~Utf8Valid(r.res.val) THEN [res |-> Err("Utf8"), body |-> r.body] ELSE r

(***************************************************************************)
(* Body operations on the program's slots                                  *)
(***************************************************************************)
Live(x) == bodies[x].kind # "Moved"
Op(name, x, y, res) == [name |-> name, x |-> x, y |-> y, res |-> res, src |-> origin[x], arg |-> NoBody]
SseUnchanged == UNCHANGED <<dw, ds, evt, inp, rd>>

\* let x = <constructor>; on a slot whose previous Body was consumed
New(x) ==
    /\ ~Live(x)
    /\ \E c \in Replacements :
         /\ bodies' = [bodies EXCEPT ![x] = c.body]
         /\ origin' = [origin EXCEPT ![x] = c.src]
    /\ lastOp' = Op("new", x, 0, Unit)
    /\ ret' = NoBody /\ SseUnchanged

TakeNoCheck(x) ==
    /\ Live(x)
    /\ ret' = bodies[x]
    /\ bodies' = [bodies EXCEPT ![x] = Frozen]
    /\ origin' = [origin EXCEPT ![x] = None]
    /\ lastOp' = Op("take", x, 0, Unit)
    /\ SseUnchanged

\* Body::take
Take(x) ==
    /\ Live(x)
    /\ IF is_frozen(bodies[x])
       THEN /\ lastOp' = Op("take", x, 0, Err("BodyFrozen"))
            /\ ret' = NoBody
            /\ UNCHANGED <<bodies, origin>>
       ELSE /\ ret' = bodies[x]
            /\ bodies' = [bodies EXCEPT ![x] = Frozen]
            /\ origin' = [origin EXCEPT ![x] = None]
            /\ lastOp' = Op("take", x, 0, Unit)
    /\ SseUnchanged

FreezeToEmpty(x) ==
    /\ Live(x)
    /\ bodies' = [bodies EXCEPT ![x] = BodyEmpty]
    /\ origin' = [origin EXCEPT ![x] = None]
    /\ lastOp' = Op("freeze", x, 0, Unit)
    /\ ret' = NoBody /\ SseUnchanged

\* Body::freeze: self.replace(Self::frozen()), result dropped
Freeze(x) ==
    /\ Live(x)
    /\ bodies' = [bodies EXCEPT ![x] = Frozen]
    /\ origin' = [origin EXCEPT ![x] = None]
    /\ lastOp' = Op("freeze", x, 0, Unit)
    /\ ret' = NoBody /\ SseUnchanged

SwapChecksOther(x, y) ==
    /\ x # y /\ Live(x) /\ Live(y)
    /\ IF is_frozen(bodies[y])
       THEN /\ lastOp' = Op("swap", x, y, Err("BodyFrozen"))
            /\ UNCHANGED <<bodies, origin>>
       ELSE /\ bodies' = [bodies EXCEPT ![x] = bodies[y], ![y] = bodies[x]]
            /\ origin' = [origin EXCEPT ![x] = origin[y], ![y] = origin[x]]
            /\ lastOp' = Op("swap", x, y, Unit)
    /\ ret' = NoBody /\ SseUnchanged

SwapChecksBoth(x, y) ==
    /\ x # y /\ Live(x) /\ Live(y)
    /\ IF is_frozen(bodies[x]) \/ is_frozen(bodies[y])
       THEN /\ lastOp' = Op("swap", x, y, Err("BodyFrozen"))
            /\ UNCHANGED <<bodies, origin>>
       ELSE /\ bodies' = [bodies EXCEPT ![x] = bodies[y], ![y] = bodies[x]]
            /\ origin' = [origin EXCEPT ![x] = origin[y], ![y] = origin[x]]
            /\ lastOp' = Op("swap", x, y, Unit)
    /\ ret' = NoBody /\ SseUnchanged

\* Body::swap(&mut self, body: &mut Body)
Swap(x, y) ==
    /\ x # y /\ Live(x) /\ Live(y)
    /\ IF is_frozen(bodies[x])
       THEN /\ lastOp' = Op("swap", x, y, Err("BodyFrozen"))
            /\ UNCHANGED <<bodies, origin>>
       ELSE /\ bodies' = [bodies EXCEPT ![x] = bodies[y], ![y] = bodies[x]]
            /\ origin' = [origin EXCEPT ![x] = origin[y], ![y] = origin[x]]
            /\ lastOp' = Op("swap", x, y, Unit)
    /\ ret' = NoBody /\ SseUnchanged

ReplaceRefusesFrozen(x) ==
    /\ Live(x)
    /\ IF is_frozen(bodies[x])
       THEN /\ lastOp' = Op("replace", x, 0, Err("BodyFrozen"))
            /\ ret' = NoBody
            /\ UNCHANGED <<bodies, origin>>
       ELSE /\ \E c \in Replacements :
                 /\ bodies' = [bodies EXCEPT ![x] = c.body]
                 /\ origin' = [origin EXCEPT ![x] = c.src]
                 /\ lastOp' = [Op("replace", x, 0, Unit) EXCEPT !.arg = c.body]
            /\ ret' = bodies[x]
    /\ SseUnchanged

\* Body::replace(&mut self, body) -> Body
Replace(x) ==
    /\ Live(x)
    /\ \E c \in Replacements :
         /\ bodies' = [bodies EXCEPT ![x] = c.body]
         /\ origin' = [origin EXCEPT ![x] = c.src]
         /\ lastOp' = [Op("replace", x, 0, Unit) EXCEPT !.arg = c.body]
    /\ ret' = bodies[x]
    /\ SseUnchanged

\* an operation through &mut self computed by F(body) = [res, body]
MutOp(name, x, r) ==
    /\ bodies' = [bodies EXCEPT ![x] = r.body]
    /\ origin' = [origin EXCEPT ![x] = IF r.body = bodies[x] THEN @ ELSE None]
    /\ lastOp' = Op(name, x, 0, r.res)
    /\ ret' = NoBody /\ SseUnchanged

\* let x = x.with_mime(m)  (Body::with_mime takes and returns the Body)
WithMimes == {TextPlain}
WithMime(x) ==
    /\ Live(x)
    /\ \E m \in WithMimes : bodies' = [bodies EXCEPT ![x].mime = m]
    /\ lastOp' = Op("with_mime", x, 0, Unit)
    /\ ret' = NoBody /\ UNCHANGED origin /\ SseUnchanged

\* Body::as_bytes
AsBytesOp(x) == Live(x) /\ MutOp("as_bytes", x, AsBytes(bodies[x]))
\* Body::as_str
AsStrOp(x) == Live(x) /\ MutOp("as_str", x, AsStr(bodies[x]))
\* <Body as Stream>::poll_next
PollNextOp(x) == Live(x) /\ MutOp("poll_next", x, PollNextBody(bodies[x]))

\* Body::into_bytes / Body::into_string consume the Body
IntoBytesOp(x) == Live(x) /\ MutOp("into_bytes", x, [res |-> IntoBytes(bodies[x]), body |-> Moved])
IntoStringOp(x) == Live(x) /\ MutOp("into_string", x, [res |-> IntoString(bodies[x]), body |-> Moved])

InitBody ==
    /\ \E c1, c2 \in Constructed :
         /\ bodies = <<c1.body, c2.body>>
         /\ origin = <<c1.src, c2.src>>
    /\ rd = NoReader
    /\ ret = NoBody /\ lastOp = NoOp
    /\ dw = NewSse(<<>>) /\ ds = NewSse(<<>>) /\ evt = None /\ inp = None

NextBody ==
    \E x \in Slots :
       \/ New(x) \/ Take(x) \/ Freeze(x) \/ Replace(x)
       \/ AsBytesOp(x) \/ AsStrOp(x) \/ PollNextOp(x)
       \/ IntoBytesOp(x) \/ IntoStringOp(x) \/ WithMime(x)
       \/ \E y \in Slots : Swap(x, y)

SpecBody == InitBody /\ [][NextBody]_vars
Spec == SpecBody

(***************************************************************************)
(* Properties of the Body operations                                       *)
(***************************************************************************)
ReadOps == {"into_bytes", "into_string", "poll_next", "as_bytes", "as_str"}
\* the body an as_bytes()/as_str() call leaves: inner = Once(bytes), mime None
Cached(b) == [Frozen EXCEPT !.kind = "Once", !.bytes = b]

\* C3: take() on a non-frozen body returns the original content and leaves
\* it frozen; take() on a frozen body fails with BodyFrozen and leaves it
\* frozen; every read of a frozen body yields BodyFrozen.
TakeFreezes ==
    [][ LET x == lastOp'.x IN
        /\ lastOp'.name = "take" =>
             IF is_frozen(bodies[x])
             THEN lastOp'.res = Err("BodyFrozen") /\ bodies'[x] = bodies[x]
             ELSE lastOp'.res = Unit /\ ret' = bodies[x] /\ is_frozen(bodies'[x])
        /\ (lastOp'.name \in ReadOps /\ is_frozen(bodies[x])) =>
             lastOp'.res = Err("BodyFrozen") ]_vars
TakeFreezesWitness == lastOp.name = "take" /\ lastOp.res = Err("BodyFrozen")

\* C4: Body::from_bytes(P).into_bytes() is Ok(P), and into_string() is Ok(P)
\* when P is valid UTF-8.
FromBytesRoundTrip ==
    lastOp.src # None =>
      /\ lastOp.name = "into_bytes" => lastOp.res = Ok(lastOp.src[1])
      /\ (lastOp.name = "into_string" /\ Utf8Valid(lastOp.src[1])) => lastOp.res = Ok(lastOp.src[1])
FromBytesRoundTripWitness ==
    lastOp.name = "into_string" /\ lastOp.src # None /\ Len(lastOp.src[1]) = MaxPayload
    /\ lastOp.res.tag = "Ok"

\* C5: after freeze() the body is frozen and into_bytes() yields BodyFrozen.
FreezeContract ==
    lastOp.name = "freeze" =>
      /\ lastOp.res = Unit
      /\ is_frozen(bodies[lastOp.x])
      /\ IntoBytes(bodies[lastOp.x]) = Err("BodyFrozen")
FreezeContractWitness == lastOp.name = "freeze" /\ bodies[3 - lastOp.x].kind = "Once"

\* C6 (as stated): a frozen body stays frozen under every operation except
\* replace on it (into_* consume it).
FrozenTerminalClaim ==
    [][ \A x \in Slots :
          (is_frozen(bodies[x]) /\ ~(lastOp'.name = "replace" /\ lastOp'.x = x))
            => (is_frozen(bodies'[x]) \/ bodies'[x] = Moved) ]_vars
\* C6 (amended): a frozen body stays frozen unless replace installs a new
\* body in it or it is the other operand of a successful swap, which gives
\* it the first operand's content (into_* consume it).
FrozenTerminal ==
    [][ \A x \in Slots :
          (is_frozen(bodies[x]) /\ ~(lastOp'.name = "replace" /\ lastOp'.x = x)
           /\ ~(lastOp'.name = "swap" /\ lastOp'.y = x /\ lastOp'.res = Unit))
            => (is_frozen(bodies'[x]) \/ bodies'[x] = Moved) ]_vars
FrozenTerminalWitness ==
    lastOp.name = "swap" /\ lastOp.res = Err("BodyFrozen") /\ is_frozen(bodies[lastOp.x])

\* C7: swap fails with BodyFrozen and changes nothing when self is frozen,
\* otherwise succeeds (whatever the other body is) and exchanges contents.
SwapContract ==
    [][ lastOp'.name = "swap" =>
          LET x == lastOp'.x
              y == lastOp'.y IN
          IF is_frozen(bodies[x])
          THEN lastOp'.res = Err("BodyFrozen") /\ bodies' = bodies
          ELSE lastOp'.res = Unit /\ bodies'[x] = bodies[y] /\ bodies'[y] = bodies[x] ]_vars
SwapContractWitness ==
    lastOp.name = "swap" /\ lastOp.res = Unit /\ is_frozen(bodies[lastOp.x])

\* C8: replace(new) never fails; self then holds new and the returned body
\* is self's former content (a frozen body if self was frozen).
ReplaceContract ==
    [][ lastOp'.name = "replace" =>
          /\ lastOp'.res = Unit
          /\ bodies'[lastOp'.x] = lastOp'.arg
          /\ ret' = bodies[lastOp'.x] ]_vars
ReplaceContractWitness == lastOp.name = "replace" /\ is_frozen(ret) /\ ~is_frozen(lastOp.arg)

\* C9: a successful as_bytes()/as_str() leaves the body Once(all its bytes);
\* as_bytes() on such a cached body returns those bytes and changes nothing.
AsBytesCaches ==
    [][ LET x == lastOp'.x IN
        /\ (lastOp'.name \in {"as_bytes", "as_str"} /\ lastOp'.res.tag = "Ok") =>
             /\ IntoBytes(bodies[x]).tag = "Ok"
             /\ bodies'[x] = Cached(IntoBytes(bodies[x]).val)
        /\ (lastOp'.name = "as_bytes" /\ bodies[x] = Cached(bodies[x].bytes)) =>
             lastOp'.res = Ok(bodies[x].bytes) /\ bodies' = bodies ]_vars
AsBytesCachesWitness ==
    lastOp.name = "as_bytes" /\ lastOp.res.tag = "Ok" /\ Len(lastOp.res.val) >= 2

\* C10: into_string() and as_str() fail with Utf8 exactly when the
\* aggregated bytes are not valid UTF-8 and otherwise return them unchanged.
StrictUtf8 ==
    [][ LET x == lastOp'.x IN
        /\ (lastOp'.name = "into_string" /\ IntoBytes(bodies[x]).tag = "Ok") =>
             IF Utf8Valid(IntoBytes(bodies[x]).val)
             THEN lastOp'.res = Ok(IntoBytes(bodies[x]).val)
             ELSE lastOp'.res = Err("Utf8")
        /\ (lastOp'.name = "as_str" /\ bodies'[x].kind = "Once") =>
             IF Utf8Valid(bodies'[x].bytes)
             THEN lastOp'.res = Ok(bodies'[x].bytes)
             ELSE lastOp'.res = Err("Utf8") ]_vars
StrictUtf8Witness == lastOp.name \in {"into_string", "as_str"} /\ lastOp.res = Err("Utf8")

\* C11: poll_next per variant: Once yields its whole chunk once and is then
\* empty (None), an empty Once yields None; Reader and stream bodies yield
\* their items in order and None at the end; Frozen always yields BodyFrozen.
PollNextContract ==
    [][ lastOp'.name = "poll_next" =>
          LET x == lastOp'.x
              b == bodies[x] IN
          CASE b.kind = "Once" ->
                 IF b.bytes = <<>> THEN lastOp'.res = NoneRes /\ bodies'[x] = b
                 ELSE lastOp'.res = Ok(b.bytes) /\ bodies'[x].kind = "Once" /\ bodies'[x].bytes = <<>>
            [] b.kind \in {"Reader", "HttpBody"} ->
                 IF b.items = <<>> THEN lastOp'.res = NoneRes
                 ELSE /\ Head(b.items).ok => lastOp'.res = Ok(Head(b.items).bytes)
                      /\ ~Head(b.items).ok => lastOp'.res.tag = "Err"
                      /\ bodies'[x].items = Tail(b.items)
            [] b.kind = "Freeze" -> lastOp'.res = Err("BodyFrozen") /\ bodies'[x] = b ]_vars
PollNextContractWitness ==
    lastOp.name = "poll_next" /\ lastOp.res.tag = "Ok"
    /\ bodies[lastOp.x].kind = "Once" /\ bodies[lastOp.x].bytes = <<>>

\* C12: len() is Some(byte count) for Once, the hint for Reader, None for a
\* stream body; is_empty() is Some(len = 0) or None; a Reader poll yielding
\* n bytes turns the hint h into max(0, h - n).
LenOK(b) ==
    /\ b.kind = "Once" => len(b) = Some(Len(b.bytes))
    /\ b.kind = "Reader" => len(b) = b.hint
    /\ b.kind = "HttpBody" => len(b) = None
    /\ is_empty(b) = IF len(b) = None THEN None ELSE Some(len(b)[1] = 0)
LenContract ==
    [][ /\ \A x \in Slots : LenOK(bodies[x])
        /\ (lastOp'.name = "poll_next" /\ bodies[lastOp'.x].kind = "Reader" /\ lastOp'.res.tag = "Ok") =>
             LET h == len(bodies[lastOp'.x])
                 n == Len(lastOp'.res.val) IN
             len(bodies'[lastOp'.x]) = IF h = None THEN None
                                        ELSE Some(IF h[1] - n > 0 THEN h[1] - n ELSE 0) ]_vars
LenContractWitness ==
    lastOp.name = "poll_next" /\ bodies[lastOp.x].kind = "Reader" /\ len(bodies[lastOp.x]) = Some(0)

\* C13: into_bytes on a stream body is the in-order concatenation of its
\* chunks, or an error if any item is an error; on a Reader all bytes up to
\* the end whatever the hint; on a Frozen body BodyFrozen.
RECURSIVE ItemsBytes(_)
ItemsBytes(is) == IF is = <<>> THEN <<>> ELSE Head(is).bytes \o ItemsBytes(Tail(is))
HasErrItem(is) == \E k \in 1..Len(is) : ~is[k].ok
IntoBytesAggregates ==
    [][ lastOp'.name = "into_bytes" =>
          LET b == bodies[lastOp'.x] IN
          /\ b.kind = "HttpBody" =>
               lastOp'.res = IF HasErrItem(b.items) THEN Err("Io") ELSE Ok(ItemsBytes(b.items))
          /\ (b.kind = "Reader" /\ ~HasErrItem(b.items)) => lastOp'.res = Ok(ItemsBytes(b.items))
          /\ b.kind = "Freeze" => lastOp'.res = Err("BodyFrozen") ]_vars
IntoBytesAggregatesWitness ==
    lastOp.name = "into_bytes" /\ lastOp.res.tag = "Ok" /\ lastOp.res.val = <<195, 169, 97>>

(***************************************************************************)
(* Decoder specifications: an SseStream over Once(B) that may be polled    *)
(* again after it returned None, and one over Once(B') where B' is B with  *)
(* some lines removed.  B is built from blocks of lines, each line ending  *)
(* in '\n', and an optional unterminated tail line.                        *)
(***************************************************************************)
LDataB == PDataSp \o <<"b">>
LDataX == PDataSp \o <<"x">>
LIdLong == PIdSp \o <<"1", "2", "3", "4", "5", "6", "7", "8">>
LCmt == <<":", " ">> \o [k \in 1..22 |-> "c"]
LFoo == <<"f", "o", "o", ":", " ", "b", "a", "r">>
LWs == <<" ", " ">> \o LDataX
LPartial == PDataSp \o <<"p">>

TDataA == <<LDataA, LBlank>>
TDataB == <<LDataB, LBlank>>
TMulti == <<LDataA, LIdOne, LDataB, LBlank>>
TIdOnly == <<LIdOne, LBlank>>
TIdLong == <<LIdLong, LBlank>>
TCmt == <<LCmt, LBlank>>
TFoo == <<LFoo, LBlank>>
TFooData == <<LFoo, LDataX, LBlank>>
TWs == <<LWs, LBlank>>
TBlank == <<LBlank>>
BlockTemplates == {TDataA, TDataB, TMulti, TIdOnly, TIdLong, TCmt, TFoo, TFooData, TWs, TBlank}

RECURSIVE Flatten(_)
Flatten(bs) == IF bs = <<>> THEN <<>> ELSE Head(bs) \o Flatten(Tail(bs))

DecInputs ==
    [blocks : UNION { [1..k -> BlockTemplates] : k \in 0..MaxBlocks },
     tail : {None, Some(LPartial)}]

\* the body bytes, leaving out the lines in drop
DecBytes(i, drop) ==
    LET ls == Flatten(i.blocks)
        kept == SelectSeq(ls, LAMBDA l : l \notin drop)
    IN Concat(kept) \o (IF i.tail = None THEN <<>> ELSE i.tail[1])

\* classification of a line by the SSE wire format
IsComment(l) == l = <<":">> \/ HasPrefix(l, <<":", " ">>)
IsField(l) == HasPrefix(l, PData) \/ HasPrefix(l, PEvent) \/ HasPrefix(l, PId) \/ HasPrefix(l, PRetry)
IsUnknown(l) == l # <<>> /\ ~IsComment(l) /\ ~IsField(l)
AllLines == UNION { {blk[k] : k \in 1..Len(blk)} : blk \in BlockTemplates }
KeepAll == {}
NotComment == {l \in AllLines : IsComment(l)}
NotUnknown == {l \in AllLines : IsUnknown(l)}

InitDec(drop) ==
    /\ inp \in DecInputs
    /\ dw = NewSse(OnceChunks(DecBytes(inp, KeepAll)))
    /\ ds = NewSse(OnceChunks(DecBytes(inp, drop)))
    /\ evt = None
    /\ bodies = <<>> /\ ret = NoBody /\ lastOp = NoOp /\ origin = <<>> /\ rd = NoReader

\* SseStream::poll_next, also after it has returned None
PollAgain == ~dw.frozen /\ dw' = SsePoll(dw) /\ UNCHANGED <<ds, evt, inp>> /\ BodyUnchanged

NextDec == PollAgain \/ PollSplit
SpecDecCmt == InitDec(NotComment) /\ [][NextDec]_vars
SpecDecUnk == InitDec(NotUnknown) /\ [][NextDec]_vars

(***************************************************************************)
(* Properties of the decoder                                               *)
(***************************************************************************)
DataValue(l) == IF HasPrefix(l, PDataSp) THEN StripPrefix(l, PDataSp) ELSE StripPrefix(l, PData)
BlockData(blk) == LET ds0 == SelectSeq(blk, LAMBDA l : HasPrefix(l, PData))
                  IN [k \in 1..Len(ds0) |-> DataValue(ds0[k])]
HasData(blk) == BlockData(blk) # <<>>
DataBlocks(bs) == SelectSeq(bs, HasData)
Ev(id, data) == [id |-> id, event |-> None, data |-> data, retry |-> None]

\* C14: a body that ends with the unterminated line "data: p" yields one
\* event with data "p" and then None.
PartialFlush ==
    (dw.done /\ inp.tail # None /\ inp.blocks = <<>>) => dw.firstOut = <<Ev(None, <<"p">>)>>

\* C15: an empty body yields None at once, and once the stream has returned
\* None or flushed its final event it yields no further event.
FlushAtMostOnce ==
    [][ /\ (DecBytes(inp, KeepAll) = <<>> /\ dw'.done) => dw'.out = <<>>
        /\ (dw.done \/ dw.flushed) => dw'.out = dw.out ]_vars

\* C16: for k blocks with data lines, each ended by a blank line, among
\* blank, comment-only and field-only blocks, the stream yields k events, the
\* j-th holding the j-th such block's data lines joined with '\n'.
OneEventPerBlock ==
    (dw.done /\ inp.tail = None) =>
      LET db == DataBlocks(inp.blocks) IN
      /\ Len(dw.firstOut) = Len(db)
      /\ \A j \in 1..Len(db) : dw.firstOut[j].data = Join(BlockData(db[j]), <<NL>>)

\* C17: "id: v\n\n" followed by "data: d\n\n" yields one event with id v and
\* data d.
FieldsRetained ==
    (dw.done /\ inp.tail = None /\ Len(inp.blocks) = 2
     /\ inp.blocks[1] \in {TIdOnly, TIdLong} /\ inp.blocks[2] \in {TDataA, TDataB}) =>
      dw.firstOut = <<Ev(Some(StripPrefix(inp.blocks[1][1], PIdSp)), BlockData(inp.blocks[2])[1])>>

\* C18: the block "data: a\nid: 1\ndata: b\n\n" yields one event with data
\* "a\nb" and id "1".
MultiLineJoin ==
    (dw.done /\ inp.tail = None) =>
      \A j \in 1..Len(inp.blocks) :
        inp.blocks[j] = TMulti =>
          LET n == Len(DataBlocks(SubSeq(inp.blocks, 1, j))) IN
          n <= Len(dw.firstOut) /\ dw.firstOut[n].data = <<"a", NL, "b">>
          /\ dw.firstOut[n].id = Some(<<"1">>)

\* C19: removing the unknown lines of the input does not change the events.
UnknownIgnored == (dw.done /\ ds.done) => dw.firstOut = ds.firstOut

\* C20: removing the comment lines of the input does not change the events.
CommentsIgnored ==
    (dw.done /\ ds.done) =>
      Len(dw.firstOut) = Len(ds.firstOut) /\ \A j \in 1..Len(ds.firstOut) : dw.firstOut[j] = ds.firstOut[j]


(***************************************************************************)
(* Block specification: an SseStream over Once(B) where B is one block of  *)
(* field lines and a blank line, optionally followed by a second block;    *)
(* every line ends in '\n', or in "\r\n" throughout.  A second stream runs *)
(* over the '\n'-terminated form of the same lines.                        *)
(***************************************************************************)
MaxBlkLines == 3

LDataNoSp == PData \o <<"b">>
LDataEmpty == PDataSp
LDataColon == PDataSp \o <<"u", ":", "v">>
LEventU == PEventSp \o <<"u">>
LEventV == PEvent \o <<"v">>
LIdTwo == PId \o <<"2">>
LRetry30 == PRetrySp \o <<"3", "0">>
LRetryBad == PRetrySp \o <<"z", "z">>
LRetry7 == PRetry \o <<"7">>
LColon == <<":">>
LDataTwoSp == PDataSp \o <<" ", "b">>
BlkLines == {LDataA, LDataNoSp, LDataEmpty, LDataColon, LEventU, LEventV,
             LIdOne, LIdTwo, LRetry30, LRetryBad, LRetry7, LColon}
LDataBad == PDataSp \o <<"x", BadByte>>
SecondBlocks == {<<>>, <<LDataB>>, <<LEventU, LDataB>>, <<LDataBad, LDataBad>>}

\* a block with an id, an event, a retry and a data line, in any order
AllFieldLines == {LIdOne, LEventU, LRetry30, LDataA}
AllFieldBlocks == { f \in [1..4 -> AllFieldLines] : \A j, k \in 1..4 : j # k => f[j] # f[k] }
\* blocks with a data line holding two spaces after "data:"
DataSpaceBlocks == { <<LDataTwoSp>>, <<LDataTwoSp, LDataNoSp>>, <<LDataEmpty, LDataTwoSp, LDataEmpty>>,
                     <<LIdOne, LDataTwoSp, LColon>> }

BlkInputs ==
    [first : UNION { [1..k -> BlkLines] : k \in 1..MaxBlkLines } \cup AllFieldBlocks \cup DataSpaceBlocks,
     second : SecondBlocks,
     crlf : BOOLEAN]

\* the lines of the body, a blank line after each block
BlkLinesOf(i) == i.first \o <<LBlank>> \o (IF i.second = <<>> THEN <<>> ELSE i.second \o <<LBlank>>)

RECURSIVE ConcatCRLF(_)
ConcatCRLF(ls) == IF ls = <<>> THEN <<>> ELSE Head(ls) \o <<CR, NL>> \o ConcatCRLF(Tail(ls))

BlkBytes(i) == IF i.crlf THEN ConcatCRLF(BlkLinesOf(i)) ELSE Concat(BlkLinesOf(i))

InitBlk ==
    /\ inp \in BlkInputs
    /\ dw = NewSse(OnceChunks(BlkBytes(inp)))
    /\ ds = NewSse(IF inp.crlf THEN OnceChunks(Concat(BlkLinesOf(inp))) ELSE <<>>)
    /\ evt = None
    /\ bodies = <<>> /\ ret = NoBody /\ lastOp = NoOp /\ origin = <<>> /\ rd = NoReader

NextBlk == PollWhole \/ PollSplit
SpecBlk == InitBlk /\ [][NextBlk]_vars

(***************************************************************************)
(* Field semantics of one block as the SSE format describes it             *)
(***************************************************************************)
IsDataLine(l) == HasPrefix(l, PData)
\* the value of the last line of ls with P, if any
LastOf(ls, P(_), Val(_)) ==
    LET ks == {k \in 1..Len(ls) : P(ls[k])}
    IN IF ks = {} THEN None ELSE Some(Val(ls[CHOOSE k \in ks : \A j \in ks : j <= k]))
\* "<field>:" then the remainder without one leading space if present
FieldValue(l, p) == LET r == StripPrefix(l, p) IN IF r # <<>> /\ Head(r) = " " THEN Tail(r) ELSE r
RefData(ls) ==
    LET dl == SelectSeq(ls, IsDataLine) IN Join([k \in 1..Len(dl) |-> FieldValue(dl[k], PData)], <<NL>>)
FirstHasData == SelectSeq(inp.first, IsDataLine) # <<>>
RefEventType(ls) == LastOf(ls, LAMBDA l : HasPrefix(l, PEvent), LAMBDA l : FieldValue(l, PEvent))
RefId(ls) == LastOf(ls, LAMBDA l : HasPrefix(l, PId), LAMBDA l : FieldValue(l, PId))
RefRetry(ls) ==
    LET v == LastOf(ls, LAMBDA l : HasPrefix(l, PRetry) /\ ParseU64(FieldValue(l, PRetry)) # None,
                        LAMBDA l : ParseU64(FieldValue(l, PRetry)))
    IN IF v = None THEN None ELSE v[1]
RefEvent(ls) == [id |-> RefId(ls), event |-> RefEventType(ls), data |-> RefData(ls), retry |-> RefRetry(ls)]


\* C21: a retry line whose value is not a u64 is ignored (an earlier valid
\* value is kept, no error, the event is still emitted); a valid one sets
\* retry.
RetryIgnoredIfInvalid ==
    (~inp.crlf /\ FirstHasData /\ dw.done) =>
      /\ Len(dw.firstOut) >= 1
      /\ dw.firstOut[1].retry = RefRetry(inp.first)
      /\ dw.firstOut[1].data = RefData(inp.first)
RetryIgnoredIfInvalidWitness ==
    /\ ~inp.crlf /\ dw.done /\ Len(dw.firstOut) >= 1
    /\ \E j, k \in 1..Len(inp.first) : j < k /\ inp.first[j] = LRetry30 /\ inp.first[k] = LRetryBad
    /\ dw.firstOut[1].retry = Some(30)


\* C22: a block with data and any of id, event and retry lines, in any
\* order, yields one event carrying the block's data, id, event type and
\* retry; a block with only data yields an event with only data set.
AllFieldsDecoded ==
    (~inp.crlf /\ FirstHasData /\ dw.done) =>
      Len(dw.firstOut) >= 1 /\ dw.firstOut[1] = RefEvent(inp.first)
AllFieldsDecodedWitness ==
    /\ ~inp.crlf /\ inp.first \in AllFieldBlocks /\ inp.first[1] = LDataA
    /\ dw.out = <<[id |-> Some(<<"1">>), event |-> Some(<<"u">>), data |-> <<"a">>, retry |-> Some(30)]>>


\* C23: "data:" and then one optional space are removed and the rest, which
\* may contain ':' or be empty, is a data line: "data:no space" gives
\* "no space", "data: " gives "", three "data: " lines give "\n\n".
DataPrefixStripped ==
    (~inp.crlf /\ FirstHasData /\ dw.done) =>
      Len(dw.firstOut) >= 1 /\ dw.firstOut[1].data = RefData(inp.first)
DataPrefixStrippedWitness ==
    /\ ~inp.crlf /\ inp.first = <<LDataEmpty, LDataTwoSp, LDataEmpty>>
    /\ Len(dw.out) >= 1 /\ dw.out[1].data = <<NL, " ", "b", NL>>


\* C24: repeated id or event lines in a block are last-write-wins: the event
\* carries the value of the last such line before the blank line.
LastWriteWins ==
    (~inp.crlf /\ FirstHasData /\ dw.done) =>
      /\ Len(dw.firstOut) >= 1
      /\ dw.firstOut[1].id = RefId(inp.first)
      /\ dw.firstOut[1].event = RefEventType(inp.first)
LastWriteWinsWitness ==
    /\ ~inp.crlf /\ Len(dw.out) >= 1
    /\ \E j, k \in 1..Len(inp.first) : j < k /\ inp.first[j] = LIdOne /\ inp.first[k] = LIdTwo
    /\ dw.out[1].id = Some(<<"2">>)


\* C25: "\r\n" line endings are stripped like '\n': the input decodes to the
\* same events as its '\n'-terminated form, no '\r' is left in data, id or
\* event values, and "\r\n\r\n" ends an event.
CrlfSameEvents ==
    (inp.crlf /\ dw.done /\ ds.done) => dw.firstOut = ds.firstOut


\* C26: after an event is emitted the partial state is reset: no id, event
\* type or retry of an emitted event reaches a later event ("id: 1\ndata:
\* a\n\ndata: b\n\n" yields a second event with id None).
PartialReset ==
    (~inp.crlf /\ FirstHasData /\ dw.done /\ Len(dw.firstOut) >= 2) =>
      /\ dw.firstOut[2].id = RefId(inp.second)
      /\ dw.firstOut[2].event = RefEventType(inp.second)
      /\ dw.firstOut[2].retry = RefRetry(inp.second)
PartialResetWitness ==
    /\ ~inp.crlf /\ Len(dw.out) = 2 /\ dw.out[1].id # None /\ dw.out[2].id = None


(***************************************************************************)
(* Body-error specification: an SseStream over a stream body whose items  *)
(* may be errors, polled again after every result.                         *)
(***************************************************************************)
MaxItems == 3
EMsg1 == <<"e", "1">>
EMsg2 == <<"e", "2">>
ItemKinds == {OkChunk(Concat(<<LDataA, LBlank>>)), OkChunk(Concat(<<LDataB>>)), OkChunk(<<NL>>),
              ErrChunk(EMsg1), ErrChunk(EMsg2)}

\* SseStream::new(Body::from_stream(items)), or SseStream::new(Body::frozen())
InitErr ==
    /\ \/ /\ inp \in UNION { [1..k -> ItemKinds] : k \in 1..MaxItems }
          /\ dw = NewSseItems(inp)
       \/ /\ inp = <<>>
          /\ dw = [NewSseItems(<<>>) EXCEPT !.frozen = TRUE]
    /\ ds = NewSse(<<>>)
    /\ evt = None
    /\ bodies = <<>> /\ ret = NoBody /\ lastOp = NoOp /\ origin = <<>> /\ rd = NoReader

MaxPolls == 3
\* SseStream::poll_next over Body::frozen(), polled up to MaxPolls times
PollFrozen == dw.frozen /\ Len(dw.errs) < MaxPolls /\ dw' = SsePoll(dw) /\ UNCHANGED <<ds, evt, inp>> /\ BodyUnchanged
NextErr == PollAgain \/ PollFrozen
SpecErr == InitErr /\ [][NextErr]_vars

\* the messages of the error items of the body, in order
ErrMsgs == LET es == SelectSeq(inp, LAMBDA c : ~c.ok) IN [k \in 1..Len(es) |-> es[k].msg]

\* C27 (as stated): a body error is yielded as Err(BodyError(msg)) with the
\* error's message, and after it the stream yields no further Ok event.
BodyErrorTerminates ==
    ~dw.frozen =>
      /\ \A k \in 1..Len(dw.errs) : k <= Len(ErrMsgs) /\ dw.errs[k].msg = ErrMsgs[k]
      /\ Len(dw.errs) >= 1 => Len(dw.out) = dw.errs[1].pos

\* C27 (amended): each body error is yielded, in order, as one
\* Err(BodyError(msg)) carrying that error's message; the stream is not
\* terminated by it, and polling again resumes decoding the buffered bytes
\* and the rest of the body.
BodyErrorReported ==
    ~dw.frozen =>
      /\ Len(dw.errs) <= Len(ErrMsgs)
      /\ \A k \in 1..Len(dw.errs) : dw.errs[k].msg = ErrMsgs[k]
      /\ \A k \in 1..Len(dw.errs) - 1 : dw.errs[k].pos <= dw.errs[k + 1].pos
BodyErrorReportedWitness ==
    Len(dw.errs) >= 1 /\ Len(dw.out) > dw.errs[1].pos


\* C28: invalid UTF-8 in a line does not make the decoder fail: the bytes
\* are replaced by U+FFFD, the event is still emitted, and no Err
\* (InvalidUtf8, InvalidRetryValue or other) is yielded.
Utf8Lossy ==
    (~inp.crlf /\ FirstHasData /\ dw.done) =>
      /\ Len(dw.firstOut) = IF inp.second = <<>> THEN 1 ELSE 2
      /\ \A k \in 1..Len(dw.firstOut) : \A j \in 1..Len(dw.firstOut[k].data) : dw.firstOut[k].data[j] # BadByte
      /\ dw.errs = <<>>
Utf8LossyWitness ==
    /\ inp.second = <<LDataBad, LDataBad>> /\ Len(dw.out) = 2
    /\ dw.out[2].data = <<"x", Replacement, NL, "x", Replacement>>


(***************************************************************************)
(* Encoding specification: Body::from_sse over a stream of events, read by *)
(* an SseStream.                                                           *)
(***************************************************************************)
MaxEvents == 2

\* sse::into_body: each Ok(event) becomes one data frame event.encode(),
\* in stream order
into_body(events) == [k \in 1..Len(events) |-> OkChunk(Encode(events[k]))]

InitEnc ==
    /\ evt \in UNION { [1..k -> RtEvents] : k \in 1..MaxEvents }
    /\ inp = None
    /\ dw = NewSseItems(into_body(evt))
    /\ ds = NewSse(<<>>)
    /\ bodies = <<>> /\ ret = NoBody /\ lastOp = NoOp /\ origin = <<>> /\ rd = NoReader

NextEnc == PollWhole
SpecEnc == InitEnc /\ [][NextEnc]_vars

\* "<field>: <value>\n"
FieldLine(name, v) == name \o <<":", " ">> \o v \o <<NL>>
EventName == <<"e", "v", "e", "n", "t">>
DataName == <<"d", "a", "t", "a">>
IdName == <<"i", "d">>
RetryName == <<"r", "e", "t", "r", "y">>
OptLine(name, o) == IF o = None THEN <<>> ELSE FieldLine(name, o[1])

\* C29: encode writes an optional event line, the data line, an optional id
\* line and an optional retry line, in that order, then one blank line, and
\* depends on the event only; Body::from_sse yields one such block per
\* stream item, in order.
EncodeLayout ==
    LET chunks == into_body(evt) IN
    /\ Len(chunks) = Len(evt)
    /\ \A k \in 1..Len(evt) :
         chunks[k].bytes =
           OptLine(EventName, evt[k].event) \o FieldLine(DataName, evt[k].data)
           \o OptLine(IdName, evt[k].id)
           \o OptLine(RetryName, IF evt[k].retry = None THEN None ELSE Some(NatToStr(evt[k].retry[1])))
           \o <<NL>>
EncodeLayoutWitness ==
    /\ Len(evt) = 2 /\ evt[1].event # None /\ evt[1].id # None /\ evt[1].retry = Some(12)
    /\ Len(dw.out) >= 1


\* C30: Body::poll_next delivers chunks in source order, and SseStream
\* yields one event per data block in the order of the blocks' blank lines,
\* none reordered, duplicated or dropped, before it returns None.
EventsInBlockOrder ==
    (dw.done /\ inp.tail = None) =>
      LET db == DataBlocks(inp.blocks) IN
      \E f \in [1..Len(dw.firstOut) -> 1..Len(db)] :
         /\ \A j \in 1..Len(dw.firstOut) - 1 : f[j] < f[j + 1]
         /\ \A j \in 1..Len(dw.firstOut) : dw.firstOut[j].data = Join(BlockData(db[f[j]]), <<NL>>)
         /\ Len(dw.firstOut) = Len(db)


\* C31: SseStream consumes every complete line of its buffer before it polls
\* the body: it polls the body only when no complete line (and so no
\* complete event) is left in the buffer.
LinesConsumedBeforeRead == ~dw.lineLeft


\* C32: when as_bytes()/as_str() fails because the reader or stream
\* errors, the body is left frozen (its content is lost), and later reads
\* of it fail with BodyFrozen.
FailedReadFreezes ==
    [][ LET x == lastOp'.x IN
        /\ (lastOp'.name \in {"as_bytes", "as_str"} /\ lastOp'.res = Err("Io")) =>
             is_frozen(bodies'[x])
        /\ (lastOp'.name \in {"as_bytes", "as_str", "into_bytes", "into_string", "poll_next"}
              /\ is_frozen(bodies[x])) => lastOp'.res = Err("BodyFrozen") ]_vars
FailedReadFreezesWitness ==
    lastOp.name \in {"as_bytes", "as_str"} /\ lastOp.res = Err("Io") /\ is_frozen(bodies[lastOp.x])

\* C33: as_bytes()/as_str() leave the body's MIME type unchanged.
AsBytesKeepsMime ==
    [][ (lastOp'.name \in {"as_bytes", "as_str"} /\ lastOp'.res.tag = "Ok") =>
          bodies'[lastOp'.x].mime = bodies[lastOp'.x].mime ]_vars


\* C34: when as_str() fails with a Utf8 error the body is not frozen: it is
\* a Once body holding the bytes read, and a following as_bytes() returns
\* them.
Utf8FailureKeepsBytes ==
    [][ (lastOp'.name = "as_str" /\ lastOp'.res = Err("Utf8")) =>
          LET x == lastOp'.x IN
          /\ bodies'[x].kind = "Once"
          /\ AsBytes(bodies'[x]).res = IntoBytes(bodies[x]) ]_vars
Utf8FailureKeepsBytesWitness ==
    lastOp.name = "as_str" /\ lastOp.res = Err("Utf8") /\ Len(bodies[lastOp.x].bytes) = 2


\* C35: an SseStream over a frozen body never ends: every poll yields
\* Err(ParseError::BodyError(msg)) with BodyFrozen's message and none
\* returns None or an event.
FrozenNeverEnds ==
    [][ (dw.frozen /\ dw' # dw) =>
          /\ ~dw'.done /\ dw'.out = <<>>
          /\ Len(dw'.errs) = Len(dw.errs) + 1
          /\ dw'.errs[Len(dw'.errs)].msg = BodyFrozenMsg ]_vars
FrozenNeverEndsWitness ==
    dw.frozen /\ Len(dw.errs) = MaxPolls


\* C36: an event is emitted only after at least one data line since the
\* previous event, and its data is the join with '\n' of exactly those data
\* lines: the events' data split the input's data lines, in order, into
\* non-empty consecutive runs.
InputDataLines ==
    LET dl == SelectSeq(Flatten(inp.blocks) \o inp.tail, IsDataLine)
    IN [k \in 1..Len(dl) |-> FieldValue(dl[k], PData)]
RECURSIVE RunsOf(_, _)
RunsOf(evs, dl) ==
    IF evs = <<>> THEN TRUE
    ELSE \E j \in 1..Len(dl) :
           /\ Head(evs).data = Join(SubSeq(dl, 1, j), <<NL>>)
           /\ RunsOf(Tail(evs), SubSeq(dl, j + 1, Len(dl)))
EventDataFromRuns == RunsOf(dw.out, InputDataLines)


(***************************************************************************)
(* Body::into_reader (src/src/body/utils.rs): an IntoAsyncRead read with  *)
(* buffers of ReadSizes bytes.                                             *)
(***************************************************************************)
MaxReads == 5
ReadSizes == {1, 2, 3}

\* IntoAsyncRead::new: Once(data.reader()), Stream { stream: Some(..), buf:
\* empty reader }, Freeze; plus the bytes read, the errors returned, whether
\* a read returned 0 (EOF), and the number of reads
IntoAsyncReadNew(b) ==
    [kind |-> b.kind, once |-> b.bytes, items |-> b.items, live |-> TRUE, buf |-> <<>>,
     src |-> b, got |-> <<>>, nerr |-> 0, lastErr |-> "", eof |-> FALSE, nreads |-> 0,
     \* what the last poll_fill_buf returned, and whether a consume panicked
     filled |-> <<>>, panicked |-> FALSE]

\* (mutant) an empty data frame is not skipped
PollDataNoSkip(r) ==
    IF ~r.live \/ r.buf # <<>> THEN [r |-> r, err |-> FALSE]
    ELSE IF r.items = <<>> THEN [r |-> [r EXCEPT !.live = FALSE], err |-> FALSE]
    ELSE IF ~Head(r.items).ok THEN [r |-> [r EXCEPT !.items = Tail(@)], err |-> TRUE]
    ELSE [r |-> [r EXCEPT !.buf = Head(r.items).bytes, !.items = Tail(@)], err |-> FALSE]

\* poll_data: refill buf from the stream when it is empty; an empty data
\* frame is skipped, the end of the stream drops it (stream = None)
RECURSIVE PollData(_)
PollData(r) ==
    IF ~r.live THEN [r |-> r, err |-> FALSE]
    ELSE IF r.buf # <<>> THEN [r |-> r, err |-> FALSE]
    ELSE IF r.items = <<>> THEN [r |-> [r EXCEPT !.live = FALSE], err |-> FALSE]
    ELSE IF ~Head(r.items).ok THEN [r |-> [r EXCEPT !.items = Tail(@)], err |-> TRUE]
    ELSE IF Head(r.items).bytes = <<>> THEN PollData([r EXCEPT !.items = Tail(@)])
    ELSE [r |-> [r EXCEPT !.buf = Head(r.items).bytes, !.items = Tail(@)], err |-> FALSE]

\* <Reader<Bytes> as Read>::read into a buffer of n bytes
ReadFrom(s, n) == SubSeq(s, 1, IF n < Len(s) THEN n ELSE Len(s))

\* <IntoAsyncRead as AsyncRead>::poll_read with a buffer of n bytes
PollRead(r, n) ==
    LET r0 == [r EXCEPT !.nreads = @ + 1] IN
    CASE r.kind = "Once" ->
           LET k == Len(ReadFrom(r.once, n)) IN
           [r0 EXCEPT !.once = SubSeq(@, k + 1, Len(@)), !.got = @ \o ReadFrom(r.once, n), !.eof = (k = 0)]
      [] r.kind = "HttpBody" ->
           LET pd == PollData(r0) IN
           IF pd.err THEN [pd.r EXCEPT !.nerr = @ + 1, !.lastErr = "Io"]
           ELSE LET k == Len(ReadFrom(pd.r.buf, n)) IN
                [pd.r EXCEPT !.buf = SubSeq(@, k + 1, Len(@)), !.got = @ \o ReadFrom(pd.r.buf, n),
                             !.eof = (k = 0)]
      [] r.kind = "Freeze" -> [r0 EXCEPT !.nerr = @ + 1, !.lastErr = "BodyFrozen"]

\* <IntoAsyncRead as AsyncBufRead>::poll_fill_buf: the buffered bytes, the
\* reader is not advanced
PollFillBuf(r) ==
    LET r0 == [r EXCEPT !.nreads = @ + 1] IN
    CASE r.kind = "Once" -> [r0 EXCEPT !.filled = r.once, !.eof = (r.once = <<>>)]
      [] r.kind = "HttpBody" ->
           LET pd == PollData(r0) IN
           IF pd.err THEN [pd.r EXCEPT !.nerr = @ + 1, !.lastErr = "Io"]
           ELSE [pd.r EXCEPT !.filled = pd.r.buf, !.eof = (pd.r.buf = <<>>)]
      [] r.kind = "Freeze" -> [r0 EXCEPT !.nerr = @ + 1, !.lastErr = "BodyFrozen"]

\* <IntoAsyncRead as AsyncBufRead>::consume(amt): Reader<Bytes>::consume is
\* Bytes::advance, which panics when amt exceeds the bytes left
ConsumeAmt(r, n) ==
    CASE r.kind = "Once" ->
           IF n > Len(r.once) THEN [r EXCEPT !.panicked = TRUE]
           ELSE [r EXCEPT !.once = SubSeq(@, n + 1, Len(@)), !.got = @ \o SubSeq(r.once, 1, n)]
      [] r.kind = "HttpBody" ->
           IF n > Len(r.buf) THEN [r EXCEPT !.panicked = TRUE]
           ELSE [r EXCEPT !.buf = SubSeq(@, n + 1, Len(@)), !.got = @ \o SubSeq(r.buf, 1, n)]
      [] r.kind = "Freeze" -> r

ReadStreams ==
    { <<>>, <<Item(TRUE, <<>>), ItemA>>, <<ItemA, Item(TRUE, <<195, 169>>)>>,
      <<Item(TRUE, <<195>>), Item(TRUE, <<>>), Item(TRUE, <<169, 97>>)>>, <<ItemA, ItemErr, ItemA>>,
      <<Item(TRUE, <<97, 98, 99, 100>>), Item(TRUE, <<>>), ItemErr>> }
ReadBodies ==
    { FromBytes(p) : p \in Payloads } \cup { FromStream(is) : is \in ReadStreams } \cup { Frozen }

InitRead ==
    /\ \E b \in ReadBodies : rd = IntoAsyncReadNew(b)
    /\ dw = NewSse(<<>>) /\ ds = NewSse(<<>>) /\ evt = None /\ inp = None
    /\ bodies = <<>> /\ ret = NoBody /\ lastOp = NoOp /\ origin = <<>>

\* a poll_read call on the reader (a panic ends the task)
Read == \E n \in ReadSizes :
           /\ ~rd.eof /\ ~rd.panicked /\ rd.nreads < MaxReads
           /\ rd' = PollRead(rd, n)
           /\ UNCHANGED <<dw, ds, evt, inp, bodies, ret, lastOp, origin>>
\* a poll_fill_buf call on the reader
FillBuf ==
    /\ ~rd.eof /\ ~rd.panicked /\ rd.nreads < MaxReads
    /\ rd' = PollFillBuf(rd)
    /\ UNCHANGED <<dw, ds, evt, inp, bodies, ret, lastOp, origin>>
\* a consume(amt) call on the reader
Consume == \E n \in ReadSizes :
           /\ ~rd.eof /\ ~rd.panicked
           /\ rd' = ConsumeAmt(rd, n)
           /\ UNCHANGED <<dw, ds, evt, inp, bodies, ret, lastOp, origin>>
NextRead == Read \/ FillBuf \/ Consume
SpecRead == InitRead /\ [][NextRead]_vars

\* C37: reading into_reader() to EOF yields exactly the bytes into_bytes()
\* returns for a Once or stream body (empty data frames skipped, order
\* kept), an erroring stream returns an error before EOF, and every read of
\* a frozen body returns an I/O error wrapping BodyFrozen.
ReaderMatchesIntoBytes ==
    /\ (rd.eof /\ rd.nerr = 0 /\ rd.src.kind \in {"Once", "HttpBody"}) => IntoBytes(rd.src) = Ok(rd.got)
    /\ (rd.eof /\ IntoBytes(rd.src).tag = "Err") => rd.nerr >= 1
    /\ rd.src.kind = "Freeze" =>
         /\ rd.nerr = rd.nreads /\ rd.got = <<>> /\ ~rd.eof
         /\ rd.nreads > 0 => rd.lastErr = "BodyFrozen"
ReaderMatchesIntoBytesWitness ==
    /\ rd.eof /\ rd.src.kind = "HttpBody" /\ rd.got = <<195, 169, 97>>
    /\ \E k \in 1..Len(rd.src.items) : rd.src.items[k].bytes = <<>> /\ rd.src.items[k].ok

====
